---- MODULE Spec2Model ----
(***************************************************************************)
(* A model of astx's Block container (src/astx/blocks.py) and of the       *)
(* Python transpiler ASTxPythonTranspiler (src/astx/transpilers/python.py). *)
(*                                                                         *)
(* Text is a sequence of tokens; every space and every newline is a token  *)
(* of its own, so the concatenation of the tokens is the Python string and *)
(* leading spaces can be counted.  A node is a record with a `kind` field. *)
(***************************************************************************)
EXTENDS Naturals, Sequences, FiniteSets, TLC

\* ------------------------------------------------------------------ bounds
\* Most statement nodes a caller's tree holds.
MaxSize == 3
\* visit is not called once indent_level has drifted up to this value.
MaxLevel == 2

\* -------------------------------------------------------------------- text
SP == " "
NL == "\n"

RECURSIVE Repeat(_, _)
\* Python's  s * n  on strings.
Repeat(s, n) == IF n = 0 THEN <<>> ELSE s \o Repeat(s, n - 1)

RECURSIVE Join(_, _)
\* Python's  sep.join(parts).
Join(parts, sep) ==
    IF parts = <<>> THEN <<>>
    ELSE IF Len(parts) = 1 THEN parts[1]
    ELSE parts[1] \o sep \o Join(Tail(parts), sep)

RECURSIVE Digits(_)
Digits(n) ==
    LET d == <<"0", "1", "2", "3", "4", "5", "6", "7", "8", "9">>[(n % 10) + 1]
    IN IF n < 10 THEN <<d>> ELSE Digits(n \div 10) \o <<d>>

\* Python's str(int) for the naturals.
IntToStr(n) == Digits(n)

\* ------------------------------------------------------------------- nodes
None == [kind |-> "None"]
Variable(name) == [kind |-> "Variable", name |-> name]
LiteralInt32(value) == [kind |-> "LiteralInt32", value |-> value]
\* The class astx.Int32 itself, used as a type annotation.
Int32 == [kind |-> "Type[Int32]"]
BinaryOp(op, lhs, rhs) == [kind |-> "BinaryOp", op_code |-> op, lhs |-> lhs, rhs |-> rhs]
VariableAssignment(name, value) == [kind |-> "VariableAssignment", name |-> name, value |-> value]
FunctionReturn(value) == [kind |-> "FunctionReturn", value |-> value]
Argument(name, type) == [kind |-> "Argument", name |-> name, type_ |-> type]
Arguments(args) == [kind |-> "Arguments", nodes |-> args]
\* A node of the tree that no rule passes to visit: visit(Function) reads its fields.
FunctionPrototype(name, args, ret) ==
    [kind |-> "FunctionPrototype", name |-> name, args |-> args, return_type |-> ret]
Function(proto, body) == [kind |-> "Function", name |-> proto.name, prototype |-> proto, body |-> body]
IfExpr(cond, then, else) == [kind |-> "IfExpr", condition |-> cond, then |-> then, else_ |-> else]
IfStmt(cond, then, else) == [kind |-> "IfStmt", condition |-> cond, then |-> then, else_ |-> else]
WhileExpr(cond, body) == [kind |-> "WhileExpr", condition |-> cond, body |-> body]
WhileStmt(cond, body) == [kind |-> "WhileStmt", condition |-> cond, body |-> body]
\* A Block as a node of a tree: its nodes list.
Block(ns) == [kind |-> "Block", nodes |-> ns]
\* astx.VarDecl (src/astx/variables.py): a node kind the transpiler has no rule for.
VarDecl == [kind |-> "VarDecl", type_name |-> "int"]

\* An alias of an import: asname is "" when there is no rename.
AliasExpr(name, asname) == [kind |-> "AliasExpr", name |-> name, asname |-> asname]
ImportStmt(names) == [kind |-> "ImportStmt", names |-> names]
\* module is "" when there is none; level is the number of leading dots.
ImportFromStmt(module, names, level) ==
    [kind |-> "ImportFromStmt", module |-> module, names |-> names, level |-> level]
ImportExpr(names) == [kind |-> "ImportExpr", names |-> names]
ImportFromExpr(module, names, level) ==
    [kind |-> "ImportFromExpr", module |-> module, names |-> names, level |-> level]

\* Python truthiness of an optional field (`if node.else_`, `if node.value`).
Truthy(v) == v # None

\* ---------------------------------------------------------------- dispatch
\* Every  @dispatch def visit(...)  of the class, in source order, with the line
\* of its decorator.  `def visit(self, node: astx.IfExpr)` (line 103) carries no
\* decorator: it is rebound by the next `visit` and never registered.
Registrations ==
    << [kind |-> "AliasExpr", line |-> 44],
       [kind |-> "Argument", line |-> 51],
       [kind |-> "Arguments", line |-> 57],
       [kind |-> "BinaryOp", line |-> 62],
       [kind |-> "Block", line |-> 69],
       [kind |-> "ForRangeLoopExpr", line |-> 74],
       [kind |-> "Function", line |-> 84],
       [kind |-> "FunctionReturn", line |-> 97],
       [kind |-> "IfStmt", line |-> 113],
       [kind |-> "ImportFromStmt", line |-> 128],
       [kind |-> "ImportExpr", line |-> 139],
       [kind |-> "ImportFromExpr", line |-> 163],
       [kind |-> "ImportStmt", line |-> 194],
       [kind |-> "ImportFromStmt", line |-> 201],
       [kind |-> "LambdaExpr", line |-> 212],
       [kind |-> "LiteralBoolean", line |-> 218],
       [kind |-> "LiteralComplex32", line |-> 223],
       [kind |-> "LiteralComplex64", line |-> 230],
       [kind |-> "LiteralFloat16", line |-> 237],
       [kind |-> "LiteralFloat32", line |-> 242],
       [kind |-> "LiteralFloat64", line |-> 247],
       [kind |-> "LiteralInt32", line |-> 252],
       [kind |-> "LiteralUTF8String", line |-> 257],
       [kind |-> "LiteralUTF8Char", line |-> 262],
       [kind |-> "Type[Complex32]", line |-> 267],
       [kind |-> "Type[Complex64]", line |-> 272],
       [kind |-> "Type[Float16]", line |-> 277],
       [kind |-> "Type[Float32]", line |-> 282],
       [kind |-> "Type[Float64]", line |-> 287],
       [kind |-> "Type[Int32]", line |-> 292],
       [kind |-> "TypeCastExpr", line |-> 297],
       [kind |-> "UnaryOp", line |-> 304],
       [kind |-> "UTF8Char", line |-> 310],
       [kind |-> "UTF8String", line |-> 315],
       [kind |-> "Variable", line |-> 320],
       [kind |-> "VariableAssignment", line |-> 325],
       [kind |-> "WhileExpr", line |-> 332],
       [kind |-> "WhileStmt", line |-> 339] >>

\* The kinds plum resolves to a method.  visit(astx.AST) is @dispatch.abstract:
\* it registers no method, so any other kind is a lookup error.
Registered == {Registrations[i].kind : i \in 1..Len(Registrations)}

\* --------------------------------------------------------------- outcomes
\* The outcome of a call: the text returned, or the kind the lookup failed on;
\* `level` is self.indent_level when the call returns or raises.
\* Mutant of Raise: a node with no rule renders to the empty string.
RaiseSkips(kind, level) == [st |-> "ok", text |-> <<>>, err |-> "", level |-> level]

Ok(text, level) == [st |-> "ok", text |-> text, err |-> "", level |-> level]
Raise(kind, level) == [st |-> "error", text |-> <<>>, err |-> kind, level |-> level]
NoCall == [st |-> "none", text |-> <<>>, err |-> "", level |-> 0]

IndentStr == <<SP, SP, SP, SP>>

\* ------------------------------------------------------------------- rules
\* A rule is modelled by the calls it makes, in Python's evaluation order, and by
\* the string it formats from what they return.
V(node) == [fn |-> "visit", arg |-> node]
G(block) == [fn |-> "_generate_block", arg |-> block]

AliasExprFormat(node) ==
    IF node.asname # "" THEN <<node.name, SP, "as", SP, node.asname>>
    ELSE <<node.name>>

ArgumentCalls(node) == <<V(node.type_)>>
ArgumentFormat(node, t) == <<node.name, ":", SP>> \o t[1]

ArgumentsCalls(node) == [i \in 1..Len(node.nodes) |-> V(node.nodes[i])]
ArgumentsFormat(node, t) == Join(t, <<",", SP>>)

BinaryOpCalls(node) == <<V(node.lhs), V(node.rhs)>>
BinaryOpFormat(node, t) ==
    <<"(">> \o t[1] \o <<SP, node.op_code, SP>> \o t[2] \o <<")">>

FunctionCalls(node) ==
    <<V(node.prototype.args)>>
    \o (IF Truthy(node.prototype.return_type) THEN <<V(node.prototype.return_type)>>
        ELSE <<>>)
    \o <<V(node.body)>>
FunctionFormat(node, t) ==
    LET returns == IF Truthy(node.prototype.return_type)
                   THEN <<SP, "->", SP>> \o t[2] ELSE <<>>
        header == <<"def", SP, node.name, "(">> \o t[1] \o <<")">> \o returns \o <<":">>
    IN header \o <<NL>> \o t[Len(t)]

FunctionReturnCalls(node) == IF Truthy(node.value) THEN <<V(node.value)>> ELSE <<>>
FunctionReturnFormat(node, t) ==
    <<"return", SP>> \o (IF Truthy(node.value) THEN t[1] ELSE <<>>)

\* The body of `def visit(self, node: astx.IfExpr)`, which plum never selects.
IfExprCalls(node) ==
    <<V(node.then), V(node.condition)>>
    \o (IF Truthy(node.else_) THEN <<V(node.else_)>> ELSE <<>>)
IfExprFormat(node, t) ==
    t[1] \o <<SP, "if", SP, SP>> \o t[2]
    \o (IF Truthy(node.else_) THEN <<SP, "else", SP>> \o t[3] ELSE <<>>)

IfStmtCalls(node) ==
    <<V(node.condition), G(node.then)>>
    \o (IF Truthy(node.else_) THEN <<G(node.else_)>> ELSE <<>>)
IfStmtFormat(node, t) ==
    <<"if", SP>> \o t[1] \o <<":", NL>> \o t[2]
    \o (IF Truthy(node.else_) THEN <<NL, "else", ":", NL>> \o t[3] ELSE <<>>)

\* names = [self.visit(name) for name in node.names], in each of the import rules.
ImportCalls(node) == [i \in 1..Len(node.names) |-> V(node.names[i])]

\* level_dots and module_str of the from-imports.
ModuleStr(node) ==
    LET level_dots == Repeat(<<".">>, node.level)
    IN IF node.module # "" THEN level_dots \o <<node.module>> ELSE level_dots

ImportStmtFormat(node, t) == <<"import", SP>> \o Join(t, <<",", SP>>)

\* The rule registered at line 201, which replaces the one registered at line 128;
\* their bodies are the same.
ImportFromStmtFormat(node, t) ==
    <<"from", SP>> \o ModuleStr(node) \o <<SP, "import", SP>> \o Join(t, <<",", SP>>)

\* Mutant of Num: the targets are numbered also when there is one.
NumAlways(n) == [i \in 1..n |-> IntToStr(i)]

\* num: "" for one import, "1", "2", ... for several.
Num(n) == [i \in 1..n |-> IF n = 1 THEN <<>> ELSE IntToStr(i)]

ImportExprFormat(node, t) ==
    LET names_list == [i \in 1..Len(t) |->
                          <<"__import__", "(", "'">> \o t[i] \o <<"'", ")", SP>>]
        joined == Join(names_list, <<",", SP>>)
        num == Num(Len(t))
        call == [i \in 1..Len(num) |-> <<"module">> \o num[i]]
        call_str == Join(call, <<",", SP>>)
        names_str == IF Len(names_list) = 1 THEN joined
                     ELSE <<"(">> \o joined \o <<")">>
    IN call_str \o <<SP, "=", SP>> \o names_str

ImportFromExprFormat(node, t) ==
    LET module_str == ModuleStr(node)
        names_list == [i \in 1..Len(t) |->
                          <<"getattr", "(", "__import__", "(", "'">> \o module_str
                          \o <<"'", ",", SP, "fromlist", "=", "[", "'">> \o t[i]
                          \o <<"'", "]", ")", ",", SP, "'">> \o t[i] \o <<"'", ")">>]
        joined == Join(names_list, <<",", SP>>)
        num == Num(Len(t))
        call == [i \in 1..Len(num) |-> <<"name">> \o num[i]]
        call_str == Join(call, <<",", SP>>)
        names_str == IF Len(names_list) = 1 THEN joined
                     ELSE <<"(">> \o joined \o <<")">>
    IN call_str \o <<SP, "=", SP>> \o names_str

VariableAssignmentCalls(node) == <<V(node.value)>>
VariableAssignmentFormat(node, t) == <<node.name, SP, "=", SP>> \o t[1]

WhileExprCalls(node) == <<V(node.condition), V(node.body)>>
WhileExprFormat(node, t) ==
    <<"[">> \o t[2]
    \o <<SP, "for", SP, "_", SP, "in", SP, "iter", "(", "lambda", ":", SP>>
    \o t[1] \o <<",", SP, "False", ")", "]">>

WhileStmtCalls(node) == <<V(node.condition), G(node.body)>>
WhileStmtFormat(node, t) == <<"while", SP>> \o t[1] \o <<":", NL>> \o t[2]

\* The calls of the rule registered for the node's kind.
Calls(node) ==
    CASE node.kind = "Argument" -> ArgumentCalls(node)
      [] node.kind = "Arguments" -> ArgumentsCalls(node)
      [] node.kind = "BinaryOp" -> BinaryOpCalls(node)
      [] node.kind = "Function" -> FunctionCalls(node)
      [] node.kind = "FunctionReturn" -> FunctionReturnCalls(node)
      [] node.kind = "IfExpr" -> IfExprCalls(node)
      [] node.kind = "IfStmt" -> IfStmtCalls(node)
      [] node.kind \in {"ImportStmt", "ImportFromStmt", "ImportExpr", "ImportFromExpr"} ->
            ImportCalls(node)
      [] node.kind = "VariableAssignment" -> VariableAssignmentCalls(node)
      [] node.kind = "WhileExpr" -> WhileExprCalls(node)
      [] node.kind = "WhileStmt" -> WhileStmtCalls(node)
      [] OTHER -> <<>>

\* The string the rule returns, t being what its calls returned.
Format(node, t) ==
    CASE node.kind = "AliasExpr" -> AliasExprFormat(node)
      [] node.kind = "Argument" -> ArgumentFormat(node, t)
      [] node.kind = "Arguments" -> ArgumentsFormat(node, t)
      [] node.kind = "BinaryOp" -> BinaryOpFormat(node, t)
      [] node.kind = "Function" -> FunctionFormat(node, t)
      [] node.kind = "FunctionReturn" -> FunctionReturnFormat(node, t)
      [] node.kind = "IfExpr" -> IfExprFormat(node, t)
      [] node.kind = "IfStmt" -> IfStmtFormat(node, t)
      [] node.kind = "ImportStmt" -> ImportStmtFormat(node, t)
      [] node.kind = "ImportFromStmt" -> ImportFromStmtFormat(node, t)
      [] node.kind = "ImportExpr" -> ImportExprFormat(node, t)
      [] node.kind = "ImportFromExpr" -> ImportFromExprFormat(node, t)
      [] node.kind = "LiteralInt32" -> IntToStr(node.value)
      [] node.kind = "Type[Int32]" -> <<"int">>
      [] node.kind = "Variable" -> <<node.name>>
      [] node.kind = "VariableAssignment" -> VariableAssignmentFormat(node, t)
      [] node.kind = "WhileExpr" -> WhileExprFormat(node, t)
      [] node.kind = "WhileStmt" -> WhileStmtFormat(node, t)

\* The lines of _generate_block: the indent read after the increment, before each
\* child's text.
BlockLines(indent, texts) == [i \in 1..Len(texts) |-> indent \o texts[i]]

\* Mutant of BlockResult: no placeholder line for a Block with no children.
BlockResultNoPass(lines, level) == Join(lines, <<NL>>)

\* The result of _generate_block; `level` is indent_level when it is computed.
BlockResult(lines, level) ==
    IF lines # <<>> THEN Join(lines, <<NL>>)
    ELSE Repeat(IndentStr, level) \o <<"pass">>

RECURSIVE visit(_, _)
RECURSIVE CallAll(_, _, _)
RECURSIVE GenerateBlock(_, _)

\* The calls cs[i..] one after the other, each starting from the indent_level the
\* one before left; the first that raises ends the evaluation.
CallAll(cs, i, level) ==
    IF i > Len(cs) THEN [st |-> "ok", texts |-> <<>>, err |-> "", level |-> level]
    ELSE LET r == IF cs[i].fn = "visit" THEN visit(cs[i].arg, level)
                  ELSE GenerateBlock(cs[i].arg, level)
         IN IF r.st # "ok"
            THEN [st |-> "error", texts |-> <<>>, err |-> r.err, level |-> r.level]
            ELSE LET rest == CallAll(cs, i + 1, r.level)
                 IN IF rest.st # "ok" THEN rest
                    ELSE [rest EXCEPT !.texts = <<r.text>> \o @]

\* _generate_block: the increment, the children, the join (or the `pass` line, which
\* reads indent_level again), the decrement.  There is no try/finally: a child that
\* raises leaves the increment in place.
GenerateBlock(block, level) ==
    LET entered == level + 1
        indent == Repeat(IndentStr, entered)
        r == CallAll([i \in 1..Len(block.nodes) |-> V(block.nodes[i])], 1, entered)
    IN IF r.st # "ok" THEN Raise(r.err, r.level)
       ELSE Ok(BlockResult(BlockLines(indent, r.texts), r.level), r.level - 1)

\* self.visit(node) with indent_level = level: plum selects the method registered
\* for the node's kind, and raises a lookup error naming the node when there is none.
visit(node, level) ==
    IF node.kind \notin Registered THEN Raise(node.kind, level)
    ELSE IF node.kind = "Block" THEN GenerateBlock(node, level)
    ELSE LET r == CallAll(Calls(node), 1, level)
         IN IF r.st # "ok" THEN Raise(r.err, r.level)
            ELSE Ok(Format(node, r.texts), r.level)

\* The lines of a text: the token runs between newline tokens.
RECURSIVE Lines(_)
Lines(text) ==
    IF \A i \in 1..Len(text) : text[i] # NL THEN <<text>>
    ELSE LET k == CHOOSE i \in 1..Len(text) :
                      text[i] = NL /\ \A j \in 1..(i - 1) : text[j] # NL
         IN <<SubSeq(text, 1, k - 1)>> \o Lines(SubSeq(text, k + 1, Len(text)))

\* The number of space tokens a line starts with.
RECURSIVE LeadingSpaces(_)
LeadingSpaces(line) ==
    IF line = <<>> \/ Head(line) # SP THEN 0 ELSE 1 + LeadingSpaces(Tail(line))

\* ------------------------------------------------------------------- state
VARIABLES
    nodes,          \* block.nodes of the caller's Block
    position,       \* block.position
    indent_level,   \* the transpiler's self.indent_level
    root,           \* the argument of the latest visit call (None: no call yet)
    out,            \* its outcome
    entry,          \* indent_level when it was made
    appended,       \* history: the values appended to the Block, in call order
    first,          \* history: the first visit call since the tree last changed
    trav,           \* per caller: its traversal of the Block (iter / next)
    tree,           \* per thread: the tree it passes to visit
    stack,          \* per thread: its chain of visit / _generate_block frames
    res             \* per thread: the outcome of its visit call

vars == <<nodes, position, indent_level, root, out, entry, appended, first,
          trav, tree, stack, res>>
callvars == <<root, out, entry, first>>
itervars == <<trav>>
threadvars == <<tree, stack, res>>

Callers == {1, 2}
Threads == {1, 2}

NoFirst == [root |-> None, out |-> NoCall]
\* A caller's traversal: its state, the nodes it was given, and as history the
\* Block's nodes when it began (snap) and when it ended (endsnap), and whether it
\* began after another traversal had ended with no append since (second).
Idle == [st |-> "idle", yielded |-> <<>>, snap |-> <<>>, endsnap |-> <<>>,
         second |-> FALSE]

\* The statement of test_transpiler_function's body, and a node with no rule.
AssignResult ==
    VariableAssignment("result", BinaryOp("+", Variable("x"), Variable("y")))
ReturnResult == FunctionReturn(Variable("result"))
Leaves == {AssignResult, ReturnResult, VarDecl}

AddPrototype ==
    FunctionPrototype("add", Arguments(<<Argument("x", Int32), Argument("y", Int32)>>),
                      Int32)
MainPrototype == FunctionPrototype("main", Arguments(<<>>), None)
Cond == Variable("c")

\* The statements a caller builds around a Block it has filled.
Wrappings(body) ==
    { body,
      IfStmt(Cond, body, None),
      IfStmt(Cond, body, Block(<<ReturnResult>>)),
      WhileStmt(Cond, body),
      Function(AddPrototype, body),
      Function(MainPrototype, body) }

RECURSIVE Size(_)
RECURSIVE SizeAll(_)
\* The statement nodes of a tree.
Size(node) ==
    CASE node.kind = "Block" -> 1 + SizeAll(node.nodes)
      [] node.kind = "IfStmt" ->
            1 + SizeAll(node.then.nodes)
              + (IF Truthy(node.else_) THEN SizeAll(node.else_.nodes) ELSE 0)
      [] node.kind = "WhileStmt" -> 1 + SizeAll(node.body.nodes)
      [] node.kind = "Function" -> 1 + SizeAll(node.body.nodes)
      [] OTHER -> 1
SizeAll(ns) == IF ns = <<>> THEN 0 ELSE Size(Head(ns)) + SizeAll(Tail(ns))

RECURSIVE Subnodes(_)
\* The nodes of a tree that its rules pass to visit or _generate_block: the node,
\* its operands, conditions, bodies, annotations and the children of its Blocks.
\* The prototype of a Function is not among them: its rule reads node.prototype.args
\* and node.prototype.return_type and passes those.
Subnodes(node) ==
    LET parts ==
          CASE node.kind = "Block" -> {node.nodes[i] : i \in 1..Len(node.nodes)}
            [] node.kind = "Function" ->
                  {node.prototype.args, node.body}
                  \cup (IF node.prototype.return_type = None THEN {}
                        ELSE {node.prototype.return_type})
            [] node.kind = "Arguments" -> {node.nodes[i] : i \in 1..Len(node.nodes)}
            [] node.kind = "Argument" -> {node.type_}
            [] node.kind = "BinaryOp" -> {node.lhs, node.rhs}
            [] node.kind = "VariableAssignment" -> {node.value}
            [] node.kind = "FunctionReturn" -> {node.value} \ {None}
            [] node.kind \in {"IfStmt", "IfExpr"} ->
                  {node.condition, node.then, node.else_} \ {None}
            [] node.kind \in {"WhileStmt", "WhileExpr"} -> {node.condition, node.body}
            [] node.kind \in {"ImportStmt", "ImportFromStmt", "ImportExpr",
                              "ImportFromExpr"} ->
                  {node.names[i] : i \in 1..Len(node.names)}
            [] OTHER -> {}
    IN {node} \cup UNION {Subnodes(n) : n \in parts}

\* The nodes a tree contains: those above and the prototype of every Function.
TreeNodes(node) ==
    Subnodes(node) \cup {f.prototype : f \in {n \in Subnodes(node) : n.kind = "Function"}}

\* ------------------------------------------------------------------- Block
\* Mutant of BlockAppend: a value the Block already holds is not added again.
BlockAppendUnique(ns, value) ==
    IF \E i \in 1..Len(ns) : ns[i] = value THEN ns ELSE Append(ns, value)

\* Block.append: self.nodes.append(value).
BlockAppend(ns, value) == Append(ns, value)

\* The state a new transpiler and a new, empty Block are in.
InitCommon ==
    /\ nodes = <<>>
    /\ position = 0
    /\ indent_level = 0
    /\ root = None
    /\ out = NoCall
    /\ entry = 0
    /\ appended = <<>>
    /\ first = NoFirst
    /\ trav = [c \in Callers |-> Idle]
    /\ tree = [t \in Threads |-> None]
    /\ stack = [t \in Threads |-> <<>>]
    /\ res = [t \in Threads |-> NoCall]

Init == InitCommon

\* block.append(value).  The tree changes: the call history starts again.
AppendNode(value) ==
    /\ SizeAll(nodes) + Size(value) <= MaxSize
    /\ nodes' = BlockAppend(nodes, value)
    /\ appended' = Append(appended, value)
    /\ root' = None /\ out' = NoCall /\ entry' = 0 /\ first' = NoFirst
    /\ UNCHANGED <<position, indent_level, itervars, threadvars>>

\* outer = Block(); outer.append(w), w a statement built around the Block so far
\* (or that Block itself); the caller goes on with outer.
Wrap(w) ==
    /\ Size(w) <= MaxSize
    /\ nodes' = BlockAppend(<<>>, w)
    /\ appended' = <<w>>
    /\ position' = 0
    /\ root' = None /\ out' = NoCall /\ entry' = 0 /\ first' = NoFirst
    /\ UNCHANGED <<indent_level, itervars, threadvars>>

\* transpiler.visit(node), run to its end on the caller's thread.
VisitCall(node) ==
    LET r == visit(node, indent_level)
    IN /\ indent_level < MaxLevel
       /\ indent_level' = r.level
       /\ root' = node
       /\ out' = r
       /\ entry' = indent_level
       /\ first' = IF first = NoFirst THEN [root |-> node, out |-> r] ELSE first
       /\ UNCHANGED <<nodes, position, appended, itervars, threadvars>>

\* visit(block)
VisitBlock == VisitCall(Block(nodes))

\* visit(block.nodes[i])
VisitNode(i) == VisitCall(nodes[i])

Next ==
    \/ \E v \in Leaves : AppendNode(v)
    \/ \E w \in Wrappings(Block(nodes)) : Wrap(w)
    \/ VisitBlock
    \/ \E i \in 1..Len(nodes) : VisitNode(i)

Spec == Init /\ [][Next]_vars

AddFunction == Function(AddPrototype, Block(<<AssignResult, ReturnResult>>))

\* ------------------------------------------------- the rules, node by node
Atoms == {Variable("a"), Variable("b"), LiteralInt32(42)}
SmallBlocks == {Block(<<>>), Block(<<AssignResult>>), Block(<<VarDecl>>)}

\* Roots a caller passes to visit: the expression and the statement form of the
\* conditional and of the loop, over the atoms, and the atoms themselves.
RuleInputs ==
    Atoms \cup {Int32, VarDecl, AddFunction}
    \cup {IfExpr(c, t, e) : c \in Atoms, t \in Atoms, e \in Atoms \cup {None}}
    \cup {WhileExpr(c, b) : c \in Atoms, b \in Atoms}
    \cup {IfStmt(c, t, e) : c \in Atoms, t \in SmallBlocks,
                            e \in {None, Block(<<ReturnResult>>)}}
    \cup {WhileStmt(c, b) : c \in Atoms, b \in SmallBlocks}

\* visit(e)
VisitRoot(e) == VisitCall(e)

NextRules == \E e \in RuleInputs : VisitRoot(e)

SpecRules == Init /\ [][NextRules]_vars

\* ------------------------------------------ imports, returns, annotations
SqrtAlias == AliasExpr("sqrt", "square_root")
PiAlias == AliasExpr("pi", "")
Aliases == {SqrtAlias, PiAlias}

RECURSIVE AliasLists(_)
\* The lists of at most n aliases.
AliasLists(n) ==
    IF n = 0 THEN {<<>>}
    ELSE LET shorter == AliasLists(n - 1)
         IN shorter \cup {Append(ns, a) : ns \in {m \in shorter : Len(m) = n - 1},
                                          a \in Aliases}

\* The import nodes a caller passes to visit; the last two are those of
\* test_transpiler_relative_import_from_expr and test_transpiler_import_from_stmt.
ImportInputs ==
    {ImportExpr(ns) : ns \in AliasLists(MaxSize)}
    \cup {ImportFromExpr("math", ns, 0) : ns \in AliasLists(MaxSize)}
    \cup {ImportStmt(<<AliasExpr("math", ""), AliasExpr("matplotlib", "mtlb")>>),
          ImportFromExpr("", <<AliasExpr("division", ""),
                               AliasExpr("matplotlib", "mtlb")>>, 1),
          ImportFromStmt("matplotlib", <<AliasExpr("pyplot", "plt")>>, 0)}

\* Returns with and without a value, alone and as the body of a function; the
\* type Int32, as a root and as an annotation, and literals of it.
CatalogInputs ==
    ImportInputs
    \cup {FunctionReturn(None), ReturnResult, FunctionReturn(LiteralInt32(42)),
          Function(MainPrototype, Block(<<FunctionReturn(None)>>)),
          Int32, LiteralInt32(0), LiteralInt32(42), Argument("x", Int32)}

NextCatalog == \E e \in CatalogInputs : VisitRoot(e)

SpecCatalog == Init /\ [][NextCatalog]_vars

\* -------------------------------------------------- traversals of a Block
\* Another traversal has run to its end, and nothing was appended since.
AfterEnded(c) ==
    \E d \in Callers \ {c} : trav[d].st = "ended" /\ trav[d].endsnap = nodes

\* Mutant of Iter: the traversal starts at the first node again.
IterRewinds(c) ==
    /\ trav[c].st = "idle"
    /\ trav' = [trav EXCEPT ![c] = [st |-> "running", yielded |-> <<>>, snap |-> nodes,
                                    endsnap |-> <<>>, second |-> AfterEnded(c)]]
    /\ position' = 0
    /\ UNCHANGED <<nodes, indent_level, appended, callvars, threadvars>>

\* it = iter(block): Block.__iter__ returns the Block itself.
Iter(c) ==
    /\ trav[c].st = "idle"
    /\ trav' = [trav EXCEPT ![c] = [st |-> "running", yielded |-> <<>>, snap |-> nodes,
                                    endsnap |-> <<>>, second |-> AfterEnded(c)]]
    /\ UNCHANGED <<nodes, position, indent_level, appended, callvars, threadvars>>

\* next(it): Block.__next__, on the position the Block holds.
NextItem(c) ==
    /\ trav[c].st = "running"
    /\ IF position >= Len(nodes)
       THEN /\ trav' = [trav EXCEPT ![c].st = "ended", ![c].endsnap = nodes]
            /\ UNCHANGED position
       ELSE /\ trav' = [trav EXCEPT ![c].yielded = Append(@, nodes[position + 1])]
            /\ position' = position + 1
    /\ UNCHANGED <<nodes, indent_level, appended, callvars, threadvars>>

NextIter ==
    \/ \E v \in Leaves : AppendNode(v)
    \/ \E c \in Callers : Iter(c)
    \/ \E c \in Callers : NextItem(c)

SpecIter == Init /\ [][NextIter]_vars

\* --------------------------------- visit calls of two threads, step by step
\* Two threads call visit on one transpiler.  A thread runs its call as a chain of
\* frames; a step is one statement of _generate_block, or one call of a rule.  A
\* call whose argument holds no Block reads and writes nothing the threads share,
\* and is one step.
ConcTrees ==
    { Block(<<>>),
      Block(<<AssignResult>>),
      Block(<<ReturnResult, VarDecl>>),
      Block(<<Block(<<ReturnResult>>)>>),
      WhileStmt(Cond, Block(<<ReturnResult>>)),
      AddFunction }

HoldsBlock(node) == \E n \in Subnodes(node) : n.kind = "Block"

Frame(fn, node) ==
    [fn |-> fn, node |-> node, pc |-> "start", texts |-> <<>>, indent |-> <<>>,
     result |-> <<>>]

Top(t) == stack[t][Len(stack[t])]
IsBlockFrame(f) == f.fn = "_generate_block" \/ f.node.kind = "Block"
SetTop(t, f) == [stack EXCEPT ![t] = SubSeq(@, 1, Len(@) - 1) \o <<f>>]

\* The frame on top returns `text`: to the frame below, or to the thread's caller.
ReturnText(t, text, level) ==
    LET rest == SubSeq(stack[t], 1, Len(stack[t]) - 1)
    IN IF rest = <<>>
       THEN /\ stack' = [stack EXCEPT ![t] = <<>>]
            /\ res' = [res EXCEPT ![t] = Ok(text, level)]
       ELSE LET below == rest[Len(rest)]
            IN /\ stack' = [stack EXCEPT ![t] =
                               SubSeq(rest, 1, Len(rest) - 1)
                               \o <<[below EXCEPT !.texts = Append(@, text)]>>]
               /\ UNCHANGED res

\* The call raises: no frame of the chain catches it.
RaiseOut(t, kind) ==
    /\ stack' = [stack EXCEPT ![t] = <<>>]
    /\ res' = [res EXCEPT ![t] = Raise(kind, indent_level)]

\* The thread calls transpiler.visit(tree[t]).
Start(t) ==
    /\ res[t] = NoCall /\ stack[t] = <<>>
    /\ IF tree[t].kind \notin Registered
       THEN res' = [res EXCEPT ![t] = Raise(tree[t].kind, indent_level)] /\ UNCHANGED stack
       ELSE stack' = [stack EXCEPT ![t] = <<Frame("visit", tree[t])>>] /\ UNCHANGED res
    /\ UNCHANGED <<nodes, position, indent_level, appended, callvars, itervars, tree>>

\* self.indent_level += 1, taken as one step: the interleavings in which the
\* read and the write of the counter are separated are left out.
Enter(t) ==
    /\ stack[t] # <<>> /\ IsBlockFrame(Top(t)) /\ Top(t).pc = "start"
    /\ indent_level' = indent_level + 1
    /\ stack' = SetTop(t, [Top(t) EXCEPT !.pc = "indent"])
    /\ UNCHANGED <<nodes, position, appended, callvars, itervars, tree, res>>

\* indent = self.indent_str * self.indent_level
ReadIndent(t) ==
    /\ stack[t] # <<>> /\ IsBlockFrame(Top(t)) /\ Top(t).pc = "indent"
    /\ stack' = SetTop(t, [Top(t) EXCEPT !.pc = "calls",
                                         !.indent = Repeat(IndentStr, indent_level)])
    /\ UNCHANGED <<nodes, position, indent_level, appended, callvars, itervars, tree, res>>

\* The calls the frame on top has to make: a Block's children, or the rule's calls.
FrameCalls(f) ==
    IF IsBlockFrame(f) THEN [i \in 1..Len(f.node.nodes) |-> V(f.node.nodes[i])]
    ELSE Calls(f.node)

\* The next call of the frame on top.
CallNext(t) ==
    /\ stack[t] # <<>>
    /\ Top(t).pc = (IF IsBlockFrame(Top(t)) THEN "calls" ELSE "start")
    /\ Len(Top(t).texts) < Len(FrameCalls(Top(t)))
    /\ LET c == FrameCalls(Top(t))[Len(Top(t).texts) + 1]
           r == visit(c.arg, indent_level)
       IN IF c.fn = "visit" /\ c.arg.kind \notin Registered
          THEN RaiseOut(t, c.arg.kind)
          ELSE IF ~HoldsBlock(c.arg)
          THEN IF r.st = "ok"
               THEN /\ stack' = SetTop(t, [Top(t) EXCEPT !.texts = Append(@, r.text)])
                    /\ UNCHANGED res
               ELSE RaiseOut(t, r.err)
          ELSE /\ stack' = [stack EXCEPT ![t] = Append(@, Frame(c.fn, c.arg))]
               /\ UNCHANGED res
    /\ UNCHANGED <<nodes, position, indent_level, appended, callvars, itervars, tree>>

\* result = "\n".join(lines) if lines else self.indent_str * self.indent_level + "pass"
JoinLines(t) ==
    /\ stack[t] # <<>> /\ IsBlockFrame(Top(t)) /\ Top(t).pc = "calls"
    /\ Len(Top(t).texts) = Len(FrameCalls(Top(t)))
    /\ stack' = SetTop(t, [Top(t) EXCEPT
                              !.pc = "leave",
                              !.result = BlockResult(BlockLines(Top(t).indent, Top(t).texts),
                                                     indent_level)])
    /\ UNCHANGED <<nodes, position, indent_level, appended, callvars, itervars, tree, res>>

\* self.indent_level -= 1; return result
Leave(t) ==
    /\ stack[t] # <<>> /\ IsBlockFrame(Top(t)) /\ Top(t).pc = "leave"
    /\ indent_level' = indent_level - 1
    /\ ReturnText(t, Top(t).result, indent_level - 1)
    /\ UNCHANGED <<nodes, position, appended, callvars, itervars, tree>>

\* The rule on top has made its calls: it returns its formatted string.
RuleReturn(t) ==
    /\ stack[t] # <<>> /\ ~IsBlockFrame(Top(t))
    /\ Len(Top(t).texts) = Len(FrameCalls(Top(t)))
    /\ ReturnText(t, Format(Top(t).node, Top(t).texts), indent_level)
    /\ UNCHANGED <<nodes, position, indent_level, appended, callvars, itervars, tree>>

InitConc ==
    /\ nodes = <<>> /\ position = 0 /\ indent_level = 0
    /\ root = None /\ out = NoCall /\ entry = 0
    /\ appended = <<>> /\ first = NoFirst
    /\ trav = [c \in Callers |-> Idle]
    /\ tree \in [Threads -> ConcTrees]
    /\ stack = [t \in Threads |-> <<>>]
    /\ res = [t \in Threads |-> NoCall]

NextConc ==
    \E t \in Threads :
        \/ Start(t)
        \/ Enter(t)
        \/ ReadIndent(t)
        \/ CallNext(t)
        \/ JoinLines(t)
        \/ Leave(t)
        \/ RuleReturn(t)

SpecConc == InitConc /\ [][NextConc]_vars

\* ------------------------------------------------------------------ claims
\* What a call gave its caller: the text, or the error.
Same(a, b) == a.st = b.st /\ a.text = b.text /\ a.err = b.err

Indent(n) == Repeat(<<SP, SP, SP, SP>>, n)

NoRuleKinds(node) == {n.kind : n \in {m \in Subnodes(node) : m.kind \notin Registered}}

\* C1: when rendering a child of a Block fails, indent_level is back at its value
\* at entry to _generate_block when the error reaches the caller.
C1_IndentRestoredOnFailure ==
    (root.kind = "Block" /\ out.st = "error") => indent_level = entry

\* C3: a visit call on an unchanged tree gives the outcome the first call on that
\* tree gave, whatever calls the transpiler served in between.
C3_SameOutcomeEveryCall ==
    (first # NoFirst /\ root = first.root) => Same(out, first.out)

RECURSIVE Layout(_, _, _)
RECURSIVE BodyLayout(_, _)
\* Per line of a statement's rendering, the leading spaces C4 asks for: the first
\* line of a child of a Block at Block-depth d needs d * 4; the lines that start no
\* node (`else:`, `pass`, the first line of the root) are free.  A Block holds lines
\* only through its children.
Layout(node, d, child) ==
    LET firstLine == <<[need |-> child, n |-> d * 4]>>
        free == <<[need |-> FALSE, n |-> 0]>>
    IN CASE node.kind = "Block" -> BodyLayout(node.nodes, d + 1)
         [] node.kind = "IfStmt" ->
               firstLine \o BodyLayout(node.then.nodes, d + 1)
               \o (IF node.else_ = None THEN <<>>
                   ELSE free \o BodyLayout(node.else_.nodes, d + 1))
         [] node.kind = "WhileStmt" -> firstLine \o BodyLayout(node.body.nodes, d + 1)
         [] node.kind = "Function" -> firstLine \o BodyLayout(node.body.nodes, d + 1)
         [] OTHER -> firstLine
BodyLayout(ns, d) ==
    IF ns = <<>> THEN <<[need |-> FALSE, n |-> 0]>>
    ELSE IF Len(ns) = 1 THEN Layout(ns[1], d, TRUE)
    ELSE Layout(ns[1], d, TRUE) \o BodyLayout(Tail(ns), d)

\* C4: in the text a new transpiler returns, every child of a Block at Block-depth
\* d starts its line with exactly d * 4 spaces.
C4_IndentationDepth ==
    (out.st = "ok" /\ entry = 0) =>
        LET ls == Lines(out.text)
            want == Layout(root, 0, FALSE)
        IN /\ Len(ls) = Len(want)
           /\ \A i \in 1..Len(want) : want[i].need => LeadingSpaces(ls[i]) = want[i].n

C4_Witness ==
    /\ out.st = "ok" /\ entry = 0 /\ root.kind = "Block" /\ Len(root.nodes) = 1
    /\ root.nodes[1].kind = "Block" /\ Len(root.nodes[1].nodes) = 2

\* The kinds with no registered rule among all the nodes the tree contains.
NoRuleKindsContained(node) ==
    {n.kind : n \in {m \in TreeNodes(node) : m.kind \notin Registered}}

\* C5, as stated: visit on a tree that contains, at the root or anywhere below, a
\* node of a kind with no registered rule fails with an error naming such a kind,
\* and returns no text.
C5_UnsupportedConstruct ==
    (root # None /\ NoRuleKindsContained(root) # {}) =>
        /\ out.st = "error"
        /\ out.err \in NoRuleKindsContained(root)
        /\ out.text = <<>>

\* C5, amended: visit on a tree in which a node that rendering dispatches on (the
\* root, a child of a Block, a body, condition, operand or annotation) is of a kind
\* with no registered rule fails with an error naming such a kind, and returns no
\* text.  A node read only through its parent's rule (the FunctionPrototype of a
\* Function) needs no rule of its own.
C5_UnsupportedDispatchedNode ==
    (root # None /\ NoRuleKinds(root) # {}) =>
        /\ out.st = "error"
        /\ out.err \in NoRuleKinds(root)
        /\ out.text = <<>>

\* A Function, whose prototype has no rule, renders.
C5_WitnessPrototype ==
    /\ root.kind = "Function" /\ "FunctionPrototype" \in NoRuleKindsContained(root)
    /\ out.st = "ok"

\* A Function whose body holds a node with no rule fails on that node.
C5_WitnessFunction ==
    /\ root.kind = "Function" /\ root.body.nodes = <<VarDecl>>
    /\ out.st = "error" /\ out.err = "VarDecl"

C5_Witness ==
    /\ root.kind = "Block" /\ Len(root.nodes) = 2
    /\ root.nodes[1].kind = "WhileStmt"
    /\ root.nodes[1].body.nodes = <<VarDecl>>
    /\ out.st = "error" /\ out.err = "VarDecl"

\* C6: Block.nodes is the sequence of the appended values, and a rendered Block is
\* the renderings of the appended values, one per value, in append order, each
\* after the block's indentation, joined by newlines.
C6_OrderPreservation ==
    /\ nodes = appended
    /\ (root = Block(nodes) /\ out.st = "ok" /\ appended # <<>>) =>
          out.text = Join([i \in 1..Len(appended) |->
                              Indent(entry + 1) \o visit(appended[i], entry + 1).text],
                          <<NL>>)

C6_Witness ==
    /\ Len(appended) = 3 /\ appended[1] = appended[2] /\ appended[3] # appended[1]
    /\ root = Block(nodes) /\ out.st = "ok"

EmptyBody(node) ==
    \/ node.kind = "Function" /\ node.body.nodes = <<>>
    \/ node.kind = "WhileStmt" /\ node.body.nodes = <<>>
    \/ node.kind = "IfStmt" /\ node.then.nodes = <<>>

\* C7: a Block with no children, as the root or as the body of a Function, IfStmt or
\* WhileStmt, renders to the one line <indentation>pass, the indentation being that
\* of the block (one level more than indent_level at entry), and indent_level is
\* back at its entry value afterwards.
C7_EmptyBlockPlaceholder ==
    /\ root = Block(<<>>) =>
          /\ out.st = "ok"
          /\ out.text = Indent(entry + 1) \o <<"pass">>
          /\ indent_level = entry
    /\ EmptyBody(root) =>
          /\ out.st = "ok"
          /\ Lines(out.text)[2] = Indent(entry + 1) \o <<"pass">>
          /\ indent_level = entry

C7_Witness ==
    /\ root.kind = "WhileStmt" /\ EmptyBody(root) /\ entry > 0 /\ out.st = "ok"

C7_WitnessRoot == root = Block(<<>>) /\ out.st = "ok"

RECURSIVE LineCount(_)
\* The lines the statements take when they render.
LineCount(ns) ==
    IF ns = <<>> THEN 0
    ELSE Len(Lines(visit(Head(ns), 0).text)) + LineCount(Tail(ns))

\* C10: visit(Function) is the header `def <name>(<args>) -> <type>:` (no ` -> <type>`
\* without a return type), a newline, and the body, each statement of the body
\* starting a line of its own, in append order, 4 spaces deeper than the header;
\* the function add of the test renders to 3 lines.
C10_FunctionRendering ==
    (/\ root.kind = "Function" /\ out.st = "ok"
     /\ \A i \in 1..Len(root.body.nodes) : root.body.nodes[i].kind # "Block") =>
        LET ls == Lines(out.text)
            p == root.prototype
            bs == root.body.nodes
            returns == IF p.return_type = None THEN <<>>
                       ELSE <<SP, "->", SP>> \o visit(p.return_type, 0).text
        IN /\ ls[1] = <<"def", SP, p.name, "(">> \o visit(p.args, 0).text
                        \o <<")">> \o returns \o <<":">>
           /\ \A i \in 1..Len(bs) :
                 LET k == 2 + LineCount(SubSeq(bs, 1, i - 1))
                 IN ls[k] = Indent(1) \o Lines(visit(bs[i], 0).text)[1]
           /\ (root = AddFunction => Len(ls) = 3)

\* C2: interleaved with a visit call on another tree and the same transpiler, a
\* visit call returns what it returns when it runs alone on a new transpiler.
C2_IndependentInvocations ==
    tree[1] # tree[2] =>
        \A t \in Threads : res[t] # NoCall => Same(res[t], visit(tree[t], 0))

\* C8: a traversal that has ended, with no append since it began, has yielded all
\* the nodes of the Block in append order, whatever other traversal of the Block
\* ran before it or between its steps.
C8_FreshCursorPerTraversal ==
    \A c \in Callers :
        (trav[c].st = "ended" /\ trav[c].snap = nodes) => trav[c].yielded = nodes

\* C9: IfExpr, IfStmt, WhileExpr and WhileStmt each have a rule of their own:
\* visit(IfExpr) returns the inline conditional of its rendered operands, visit(IfStmt)
\* `if <cond>:`, the indented then-block and, with an else branch, `else:` and the
\* indented else-block; the loop forms likewise.
C9_ExpressionAndStatementForms ==
    LET T(n) == visit(n, entry).text
        B(b) == GenerateBlock(b, entry)
    IN /\ root.kind = "IfExpr" =>
             /\ out.st = "ok"
             /\ out.text = T(root.then) \o <<SP, "if", SP, SP>> \o T(root.condition)
                           \o (IF root.else_ = None THEN <<>>
                               ELSE <<SP, "else", SP>> \o T(root.else_))
       /\ (root.kind = "IfStmt" /\ out.st = "ok") =>
             out.text = <<"if", SP>> \o T(root.condition) \o <<":", NL>> \o B(root.then).text
                        \o (IF root.else_ = None THEN <<>>
                            ELSE <<NL, "else", ":", NL>> \o B(root.else_).text)
       /\ root.kind = "WhileExpr" =>
             /\ out.st = "ok"
             /\ out.text = <<"[">> \o T(root.body)
                           \o <<SP, "for", SP, "_", SP, "in", SP, "iter", "(", "lambda", ":", SP>>
                           \o T(root.condition) \o <<",", SP, "False", ")", "]">>
       /\ (root.kind = "WhileStmt" /\ out.st = "ok") =>
             out.text = <<"while", SP>> \o T(root.condition) \o <<":", NL>> \o B(root.body).text

\* The indices of the tokens of text equal to tok, in increasing order.
Positions(text, tok) ==
    LET at == {i \in 1..Len(text) : text[i] = tok}
    IN [k \in 1..Cardinality(at) |->
           CHOOSE i \in at : Cardinality({j \in at : j < i}) = k - 1]

\* sub occurs in text as a run of consecutive tokens.
Contains(text, sub) ==
    \E i \in 0..(Len(text) - Len(sub)) : SubSeq(text, i + 1, i + Len(sub)) = sub

\* C11: for an ImportExpr or ImportFromExpr with n >= 1 aliases visit returns
\* `<targets> = <calls>`: the targets are `module` (`name` for ImportFromExpr) when
\* n = 1 and `module1, ..., modulen` when n > 1; the calls hold exactly n
\* __import__ calls, the i-th one on the i-th alias; and the calls are within one
\* pair of parentheses exactly when n > 1.
C11_ImportExpressions ==
    (root.kind \in {"ImportExpr", "ImportFromExpr"} /\ Len(root.names) >= 1) =>
        LET n == Len(root.names)
            base == IF root.kind = "ImportExpr" THEN "module" ELSE "name"
            targets == IF n = 1 THEN <<base>>
                       ELSE Join([i \in 1..n |-> <<base>> \o IntToStr(i)], <<",", SP>>)
            eq == Positions(out.text, "=")[1]
            calls == SubSeq(out.text, eq + 2, Len(out.text))
            imports == Positions(calls, "__import__")
            call(i) == SubSeq(calls, imports[i],
                              IF i < n THEN imports[i + 1] - 1 ELSE Len(calls))
        IN /\ out.st = "ok"
           /\ SubSeq(out.text, 1, eq + 1) = targets \o <<SP, "=", SP>>
           /\ Len(imports) = n
           /\ \A i \in 1..n :
                 Contains(call(i), <<"'">> \o visit(root.names[i], 0).text \o <<"'">>)
           /\ (n > 1) <=> (calls[1] = "(" /\ calls[Len(calls)] = ")"
                           /\ Len(Positions(calls, "(")) = Len(Positions(calls, ")")))
           /\ (n = 1) => calls[1] # "("

C11_Witness ==
    /\ root.kind = "ImportFromExpr" /\ Len(root.names) = 3 /\ out.st = "ok"
    /\ root.names[1] # root.names[2]

C11_WitnessSingle == root = ImportExpr(<<SqrtAlias>>) /\ out.st = "ok"

\* C12: visit(FunctionReturn) is `return <rendered value>` when the node has a
\* value, and the keyword `return` alone, with no other character, when it has none.
C12_FunctionReturnRendering ==
    (root.kind = "FunctionReturn" /\ out.st = "ok") =>
        out.text = IF root.value = None THEN <<"return">>
                   ELSE <<"return", SP>> \o visit(root.value, entry).text

\* C13: no kind has two registered rules; the type Int32 renders by its
\* annotation rule to `int`, and a LiteralInt32 by its value rule to the decimal
\* text of its value.
C13_UnambiguousDispatch ==
    /\ \A i, j \in 1..Len(Registrations) :
          Registrations[i].kind = Registrations[j].kind => i = j
    /\ root = Int32 => (out.st = "ok" /\ out.text = <<"int">>)
    /\ root.kind = "LiteralInt32" =>
          (out.st = "ok" /\ out.text = IntToStr(root.value) /\ out.text # <<"int">>)

\* C14: a traversal that begins after another has run to its end, with no append
\* since that end, yields no node, and its next step signals the end.
C14_ConsumedCursor ==
    \A c \in Callers :
        (trav[c].second /\ trav[c].snap = nodes) =>
            /\ trav[c].yielded = <<>>
            /\ position >= Len(nodes)

C14_Witness ==
    \E c \in Callers :
        /\ trav[c].second /\ trav[c].st = "ended" /\ trav[c].snap = nodes
        /\ Len(nodes) >= 2 /\ trav[c].yielded = <<>>

====
